---- MODULE Spec2Model ----
(***************************************************************************)
(* A model of bitfinex_saf/client.py: the BitfinexClient facade, its lazy  *)
(* session, the signing pipeline, the response classifier and Order.       *)
(*                                                                         *)
(* Python dicts are functions with a string domain (the empty dict is      *)
(* <<>>), lists are sequences, a formatted string is the sequence of its   *)
(* pieces, None is a named marker of the type of the value it replaces.    *)
(* Encodings (JSON, base64, utf8, HMAC) are tagged terms, so that the      *)
(* encoded payload can be read back and is never the value it encodes.     *)
(***************************************************************************)
EXTENDS Integers, Sequences, FiniteSets, TLC

VARIABLES
    constructed,    \* "none" before __init__, "ok", or the exception __init__ raised
    options,        \* self.options
    is_auth,        \* self._is_auth
    secret_key,     \* self._secret_key
    url,            \* self.url
    session,        \* self._session: 0 is None, else an index into sessions
    sessions,       \* every requests.Session object created so far
    opsDone,        \* endpoint operations called so far
    lastOp,         \* the last endpoint operation called
    lastArgs,       \* its arguments
    lastCalls,      \* the transport calls it issued
    lastResponses,  \* the responses the transport returned to it
    lastClassified, \* what _handle_response_errors did with the response
    lastOutcome,    \* what the operation returned or raised
    usedSessions,   \* the sessions transport calls were ever issued through
    transportCalls, \* the transport calls issued so far
    pc,             \* concurrent use: each caller's position in req_ticker
    observedUnset,  \* concurrent use: the caller saw self._session unset
    createdBy,      \* concurrent use: the session the caller created (0: none)
    localSession,   \* concurrent use: the caller's local variable session
    callsLeft       \* concurrent use: calls each caller still makes

seqVars == <<constructed, options, is_auth, secret_key, url, opsDone,
             lastOp, lastArgs, lastCalls, lastResponses, lastClassified,
             lastOutcome, usedSessions, transportCalls>>
concVars == <<pc, observedUnset, createdBy, localSession, callsLeft>>
vars == <<seqVars, session, sessions, concVars>>

(***************************************************************************)
(* Bounds                                                                  *)
(***************************************************************************)
MaxOps == 2
MaxCallsPerCaller == 1

(***************************************************************************)
(* Module constants, client.py lines 11-25                                 *)
(***************************************************************************)
PROTOCOL == "https"
HOST == "api.bitfinex.com"
STATUS_OK == 200
STATUS_TOO_MANY == 429
STATUS_UNAUTH == 401

EmptyDict == <<>>

DEFAULT_CONFIG ==
    [timeout |-> "5.0", host |-> HOST, protocol |-> PROTOCOL,
     auth |-> EmptyDict, verify |-> TRUE]

\* dict.update: the caller's keys replace the defaults, whole values at a time.
DictUpdate(d, o) ==
    [k \in (DOMAIN d) \cup (DOMAIN o) |-> IF k \in DOMAIN o THEN o[k] ELSE d[k]]

\* bool() of a dict and of a str
DictTruthy(d) == DOMAIN d # {}
StrTruthy(s) == s # ""

\* Outcomes: what a call returns or raises.
NoExc == [kind |-> "none"]
KeyErrorExc(k) == [kind |-> "KeyError", key |-> k]
NoneKey == <<>>
Utf8(s) == <<"utf8", s>>

(***************************************************************************)
(* BitfinexClient.__init__                                                 *)
(***************************************************************************)
\* line 85: bool(options['auth']) and (bool(options['key']) and bool(options['secret']))
\* with Python's short-circuit evaluation; a missing key raises KeyError.
IsAuthExpr(opts) ==
    IF ~DictTruthy(opts["auth"]) THEN [exc |-> NoExc, value |-> FALSE]
    ELSE IF "key" \notin DOMAIN opts THEN [exc |-> KeyErrorExc("key"), value |-> FALSE]
    ELSE IF ~StrTruthy(opts["key"]) THEN [exc |-> NoExc, value |-> FALSE]
    ELSE IF "secret" \notin DOMAIN opts THEN [exc |-> KeyErrorExc("secret"), value |-> FALSE]
    ELSE [exc |-> NoExc, value |-> StrTruthy(opts["secret"])]

\* line 86: options['auth']['secret'].encode('utf8') if is_auth else None
SecretKeyExpr(opts, auth) ==
    IF ~auth THEN [exc |-> NoExc, value |-> NoneKey]
    ELSE IF "secret" \notin DOMAIN opts["auth"]
         THEN [exc |-> KeyErrorExc("secret"), value |-> NoneKey]
    ELSE [exc |-> NoExc, value |-> Utf8(opts["auth"]["secret"])]

\* line 88
BaseUrl(opts) == <<opts["protocol"], "://", opts["host"]>>

ClientInit(o) ==
    LET opts == IF DictTruthy(o) THEN DictUpdate(DEFAULT_CONFIG, o) ELSE DEFAULT_CONFIG
        auth == IsAuthExpr(opts)
        sk   == SecretKeyExpr(opts, auth.value)
    IN  IF auth.exc.kind # "none"
        THEN [exc |-> auth.exc, options |-> opts, is_auth |-> FALSE,
              secret_key |-> NoneKey, url |-> <<>>]
        ELSE IF sk.exc.kind # "none"
        THEN [exc |-> sk.exc, options |-> opts, is_auth |-> auth.value,
              secret_key |-> NoneKey, url |-> <<>>]
        ELSE [exc |-> NoExc, options |-> opts, is_auth |-> auth.value,
              secret_key |-> sk.value, url |-> BaseUrl(opts)]

\* line 92: the key property
KeyProperty ==
    IF ~is_auth THEN [exc |-> NoExc, value |-> "None"]
    ELSE IF "key" \notin DOMAIN options["auth"]
         THEN [exc |-> KeyErrorExc("key"), value |-> "None"]
    ELSE [exc |-> NoExc, value |-> options["auth"]["key"]]

(***************************************************************************)
(* _nonce, line 108: str(random.randint(0, 100000000))                     *)
(***************************************************************************)
Digit(d) ==
    CASE d = 0 -> "0" [] d = 1 -> "1" [] d = 2 -> "2" [] d = 3 -> "3" [] d = 4 -> "4"
      [] d = 5 -> "5" [] d = 6 -> "6" [] d = 7 -> "7" [] d = 8 -> "8" [] d = 9 -> "9"

RECURSIVE Str(_)
Str(n) == IF n < 10 THEN Digit(n) ELSE Str(n \div 10) \o Digit(n % 10)

NonceInts == {0, 100000000}

(***************************************************************************)
(* Order, lines 209-233                                                    *)
(***************************************************************************)
OrderInit(symbol, amount, price, side, type, kwargs) ==
    [class |-> "Order", exchange |-> "bitfinex", symbol |-> symbol, amount |-> amount,
     price |-> price, side |-> side, type |-> type, additional_params |-> kwargs]

\* Iterating a str yields its characters.
Chars(s) ==
    CASE s = "id" -> <<"i", "d">>
      [] s = "is_hidden" -> <<"i", "s", "_", "h", "i", "d", "d", "e", "n">>
      [] s = "exchange" -> <<"e", "x", "c", "h", "a", "n", "g", "e">>

ValueErrorExc(msg) == [kind |-> "ValueError", message |-> msg]

\* lines 230-231: "for k, v in self._additional_params" iterates the dict's KEYS
\* and unpacks each key, a str, into k, v: a key of two characters sets
\* res[first] = second, any other key raises ValueError.
ToDict(o) ==
    LET res == [symbol |-> o.symbol, amount |-> o.amount, price |-> o.price,
                exchange |-> o.exchange, side |-> o.side, type |-> o.type]
        keys == DOMAIN o.additional_params
        long == {k \in keys : Len(Chars(k)) > 2}
        short == {k \in keys : Len(Chars(k)) < 2}
        firsts == {Chars(k)[1] : k \in keys}
    IN  IF long # {} \/ short # {}
        THEN [exc |-> ValueErrorExc(IF long # {} THEN "too many values to unpack"
                                    ELSE "need more than 1 value to unpack"),
              value |-> EmptyDict]
        ELSE [exc |-> NoExc,
              value |-> DictUpdate(res,
                  [c \in firsts |-> Chars(CHOOSE k \in keys : Chars(k)[1] = c)[2]])]

(***************************************************************************)
(* JSON, base64, HMAC: lines 198-202 and 236-245                           *)
(***************************************************************************)
PyInt(n) == [class |-> "int", value |-> n]

\* OrderEncoder.default: an Order is encoded as its to_dict()
EncodeElem(e) == IF e.class = "Order" THEN ToDict(e) ELSE [exc |-> NoExc, value |-> e]

\* json.dumps(payload, cls=BitfinexEncoder): the lists of a payload are under
\* its "orders" key.
JsonDumps(p) ==
    IF "orders" \in DOMAIN p /\ \E i \in DOMAIN p["orders"] :
                                   EncodeElem(p["orders"][i]).exc.kind # "none"
    THEN [exc |-> EncodeElem(p["orders"][
                      CHOOSE i \in DOMAIN p["orders"] :
                          /\ EncodeElem(p["orders"][i]).exc.kind # "none"
                          /\ \A j \in 1..(i - 1) :
                                 EncodeElem(p["orders"][j]).exc.kind = "none"]).exc,
          value |-> <<>>]
    ELSE [exc |-> NoExc,
          value |-> <<"json",
                      [k \in DOMAIN p |->
                          IF k = "orders"
                          THEN [i \in DOMAIN p[k] |-> EncodeElem(p[k][i]).value]
                          ELSE p[k]]>>]

Base64(j) == <<"base64", j>>
HmacSha384Hex(key, data) == <<"hmac-sha384-hex", key, data>>

NotConfiguredExc(name) == [kind |-> "NotConfigured", parameter_name |-> name]

\* _sign_payload, lines 194-206
SignPayload(payload) ==
    IF ~is_auth THEN [exc |-> NotConfiguredExc("auth"), headers |-> EmptyDict]
    ELSE LET j == JsonDumps(payload) IN
         IF j.exc.kind # "none" THEN [exc |-> j.exc, headers |-> EmptyDict]
         ELSE LET data == Base64(Utf8(j.value))
                  signature == HmacSha384Hex(secret_key, data)
              IN  [exc |-> NoExc,
                   headers |-> ("X-BFX-SIGNATURE" :> signature) @@ ("X-BFX-PAYLOAD" :> data)]

(***************************************************************************)
(* _get_session, lines 182-192                                             *)
(***************************************************************************)
\* A _get_session without the "if not self._session" test.
GetSessionNoMemo(sess, store) ==
    LET fresh == [verify |-> options["verify"], headers |-> EmptyDict]
        id == Len(store) + 1
        k == KeyProperty
    IN  IF ~is_auth \/ k.exc.kind # "none"
        THEN [exc |-> k.exc, session |-> id, sessions |-> Append(store, fresh)]
        ELSE [exc |-> NoExc, session |-> id,
              sessions |-> Append(store,
                  [fresh EXCEPT !.headers = ("X-BFX-APIKEY" :> k.value)])]

\* The session is stored (line 184) before self.key is read (line 189), so a
\* KeyError raised by the key property leaves the new session in place.
GetSession(sess, store) ==
    IF sess = 0
    THEN LET fresh == [verify |-> options["verify"], headers |-> EmptyDict]
             id == Len(store) + 1
             k == KeyProperty
         IN  IF ~is_auth
             THEN [exc |-> NoExc, session |-> id, sessions |-> Append(store, fresh)]
             ELSE IF k.exc.kind # "none"
             THEN [exc |-> k.exc, session |-> id, sessions |-> Append(store, fresh)]
             ELSE [exc |-> NoExc, session |-> id,
                   sessions |-> Append(store,
                       [fresh EXCEPT !.headers = ("X-BFX-APIKEY" :> k.value)])]
    ELSE [exc |-> NoExc, session |-> sess, sessions |-> store]

(***************************************************************************)
(* The transport: requests.Session.get / post as called at lines 153, 166  *)
(***************************************************************************)
NoTimeout == "None"
NoQuery == EmptyDict

\* Neither call passes timeout=, and a requests.Session has no default timeout.
\* The request's headers are the session's default headers overlaid by the call's.
SessionRequest(method, sid, store, target, query, headers) ==
    [method |-> method, url |-> target, params |-> query,
     headers |-> headers @@ store[sid].headers,
     verify |-> store[sid].verify, timeout |-> NoTimeout, session |-> sid]

RedirectUrl == <<"https", "://", "api.bitfinex.com", "/v1/moved">>

\* What the server answers is the environment's choice.
Respond(req, env) ==
    [status_code |-> env.status, body |-> env.body,
     url |-> IF env.redirected THEN RedirectUrl ELSE req.url]

DecodeError == "No JSON object could be decoded"

\* response.json()
ResponseJson(response) ==
    IF response.body.kind = "invalid"
    THEN [exc |-> ValueErrorExc(DecodeError), kind |-> "invalid", value |-> EmptyDict]
    ELSE [exc |-> NoExc, kind |-> response.body.kind, value |-> response.body.value]

\* urlparse.urlparse(url).path
UrlPath(u) == SubSeq(u, 4, Len(u))

(***************************************************************************)
(* The error taxonomy, lines 28-74, and the classifier, lines 172-180      *)
(***************************************************************************)
\* RequestError.__init__ (RateLimitReached inherits it)
RequestErrorInit(kind, response) ==
    [kind |-> kind, path |-> UrlPath(response.url), status |-> response.status_code,
     message |-> ""]

Placeholder == "<could not parse body>"

\* BadAuth.__init__: only ValueError is caught; json["message"] on a dict
\* without that key raises KeyError, on a list TypeError.
BadAuthInit(response) ==
    LET base == RequestErrorInit("BadAuth", response)
        j == ResponseJson(response)
    IN  IF j.exc.kind = "ValueError"
        THEN [base EXCEPT !.message = Placeholder \o j.exc.message]
        ELSE IF j.kind = "array"
        THEN [kind |-> "TypeError", path |-> <<>>, status |-> 0, message |-> ""]
        ELSE IF "message" \notin DOMAIN j.value
        THEN [kind |-> "KeyError", path |-> <<>>, status |-> 0, message |-> "message"]
        ELSE [base EXCEPT !.message =
                 IF StrTruthy(j.value["message"]) THEN j.value["message"] ELSE Placeholder]

HandleResponseErrors(response) ==
    IF response.status_code # STATUS_OK
    THEN IF response.status_code = STATUS_UNAUTH THEN BadAuthInit(response)
         ELSE IF response.status_code = STATUS_TOO_MANY
              THEN RequestErrorInit("RateLimitReached", response)
         ELSE RequestErrorInit("RequestError", response)
    ELSE [kind |-> "none", path |-> <<>>, status |-> 0, message |-> ""]

(***************************************************************************)
(* _make_get_request and _make_post_request, lines 151-170                 *)
(***************************************************************************)
NotClassified == [kind |-> "none", path |-> <<>>, status |-> 0, message |-> ""]
Returned == [kind |-> "ok"]

\* The result of a request helper: the client's session fields after it, the
\* transport calls it made with their responses, and what it returned or raised.
MakeGetRequest(path, query, env) ==
    LET gs == GetSession(session, sessions) IN
    IF gs.exc.kind # "none"
    THEN [session |-> gs.session, sessions |-> gs.sessions, calls |-> <<>>,
          responses |-> <<>>, classified |-> NotClassified, outcome |-> gs.exc]
    ELSE LET req == SessionRequest("GET", gs.session, gs.sessions, url \o path,
                                   query, EmptyDict)
             response == Respond(req, env)
             err == HandleResponseErrors(response)
             j == ResponseJson(response)
         IN  [session |-> gs.session, sessions |-> gs.sessions, calls |-> <<req>>,
              responses |-> <<response>>, classified |-> err,
              outcome |-> IF err.kind # "none" THEN err
                          ELSE IF j.exc.kind # "none" THEN j.exc
                          ELSE Returned]

MakePostRequest(path, payload, nonce, env) ==
    LET final_payload == DictUpdate(payload, [request |-> path, nonce |-> nonce])
        signed_payload == SignPayload(final_payload)
        gs == GetSession(session, sessions)
    IN  IF signed_payload.exc.kind # "none"
        THEN [session |-> session, sessions |-> sessions, calls |-> <<>>,
              responses |-> <<>>, classified |-> NotClassified,
              outcome |-> signed_payload.exc]
        ELSE IF gs.exc.kind # "none"
        THEN [session |-> gs.session, sessions |-> gs.sessions, calls |-> <<>>,
              responses |-> <<>>, classified |-> NotClassified, outcome |-> gs.exc]
        ELSE LET req == SessionRequest("POST", gs.session, gs.sessions, url \o path,
                                       NoQuery, signed_payload.headers)
                 response == Respond(req, env)
                 err == HandleResponseErrors(response)
             IN  [session |-> gs.session, sessions |-> gs.sessions, calls |-> <<req>>,
                  responses |-> <<response>>, classified |-> err,
                  outcome |-> IF err.kind # "none" THEN err ELSE Returned]

\* An operation that raised before reaching a request helper.
RaisedEarly(exc) ==
    [session |-> session, sessions |-> sessions, calls |-> <<>>, responses |-> <<>>,
     classified |-> NotClassified, outcome |-> exc]

(***************************************************************************)
(* The endpoint paths, lines 110-149                                       *)
(***************************************************************************)
\* The batch cancel posting to the single cancel's path.
EndpointPathCopied(op, symbol) ==
    CASE op = "req_ticker" -> <<"/v1/ticker/", symbol>>
      [] op = "req_orderbook" -> <<"/v1/book/", symbol>>
      [] op = "req_new_order" -> <<"/v1/order/new">>
      [] op = "req_new_orders" -> <<"/v1/order/new/multi">>
      [] op = "req_cancel_order" -> <<"/v1/order/cancel">>
      [] op = "req_cancel_orders" -> <<"/v1/order/cancel">>
      [] op = "req_active_orders" -> <<"/v1/orders">>
      [] op = "req_order_status" -> <<"/v1/order/status">>

EndpointPath(op, symbol) ==
    CASE op = "req_ticker" -> <<"/v1/ticker/", symbol>>
      [] op = "req_orderbook" -> <<"/v1/book/", symbol>>
      [] op = "req_new_order" -> <<"/v1/order/new">>
      [] op = "req_new_orders" -> <<"/v1/order/new/multi">>
      [] op = "req_cancel_order" -> <<"/v1/order/cancel">>
      [] op = "req_cancel_orders" -> <<"/v1/order/cancel/multi">>
      [] op = "req_active_orders" -> <<"/v1/orders">>
      [] op = "req_order_status" -> <<"/v1/order/status">>

(***************************************************************************)
(* Inputs                                                                  *)
(***************************************************************************)
KeyValues == {"", "k1"}
SecretValues == {"", "s1"}
AuthChoices ==
    {EmptyDict} \cup {[key |-> k] : k \in KeyValues}
                \cup {[secret |-> s] : s \in SecretValues}
                \cup {[key |-> k, secret |-> s] : k \in KeyValues, s \in SecretValues}

\* An options argument: any of these keys, each absent (<<>>) or given (<<v>>).
\* "key" and "secret" at the top level are not options of the client, but
\* line 85 reads them.
OptionsOf(w) == [k \in {k \in DOMAIN w : Len(w[k]) > 0} |-> w[k][1]]
\* The documented options: auth absent, empty, or with key and/or secret.
SurfaceOptionChoices ==
    {OptionsOf([auth |-> a]) : a \in {<<>>} \cup {<<x>> : x \in AuthChoices}}
\* Options that also carry "key" and "secret" at the top level.
StrayKeyOptionChoices ==
    {OptionsOf([auth |-> <<a>>, key |-> k, secret |-> s]) :
        a \in {EmptyDict, [secret |-> "s1"], [key |-> "k1", secret |-> "s1"]},
        k \in {<<>>, <<"">>, <<"k2">>},
        s \in {<<>>, <<"">>, <<"s2">>}}
TransportOptionChoices ==
    {[timeout |-> "10.0"], [host |-> "api.example.test"], [verify |-> FALSE]}
OptionChoices ==
    SurfaceOptionChoices \cup StrayKeyOptionChoices \cup TransportOptionChoices
    \cup {DictUpdate(t, [auth |-> [key |-> "k1", secret |-> "s1"],
                         key |-> "k2", secret |-> "s2"]) :
             t \in {[timeout |-> "10.0", host |-> "api.example.test"]}}

Symbols == {"btcusd", "ethusd"}
QueryChoices == {EmptyDict, [limit_bids |-> "1"]}
ExtraChoices ==
    {EmptyDict, [id |-> "7"], [is_hidden |-> "true"], [exchange |-> "kraken"],
     [id |-> "7", is_hidden |-> "true"]}
OrderChoices ==
    {OrderInit("btcusd", "1.0", "500.0", "buy", "limit", kw) : kw \in ExtraChoices}
OrderListChoices ==
    {<<>>} \cup {<<OrderInit("btcusd", "1.0", "500.0", "buy", "limit", kw)>> :
                    kw \in {EmptyDict, [is_hidden |-> "true"]}}
OrderIds == {101}
OrderIdListChoices == {<<PyInt(101)>>, <<PyInt(101), PyInt(102)>>}

Statuses == {STATUS_OK, STATUS_UNAUTH, STATUS_TOO_MANY, 500}
Bodies ==
    {[kind |-> "object", value |-> [message |-> "Invalid API key"]],
     [kind |-> "object", value |-> [message |-> ""]],
     [kind |-> "object", value |-> EmptyDict],
     [kind |-> "array", value |-> EmptyDict],
     [kind |-> "invalid", value |-> EmptyDict]}
\* What the server may answer: every body with a 401, a JSON and a non-JSON
\* body with the other statuses, and a 401 and a 500 after a redirect.
Envs ==
    {e \in [status : Statuses, body : Bodies, redirected : {FALSE}] :
        \/ e.status = STATUS_UNAUTH
        \/ e.body.kind = "invalid"
        \/ e.body.kind = "object" /\ "message" \in DOMAIN e.body.value
                                  /\ e.body.value["message"] # ""}
    \cup {e \in [status : {STATUS_UNAUTH, 500}, body : Bodies, redirected : {TRUE}] :
            e.body.kind = "object" /\ "message" \in DOMAIN e.body.value
                                  /\ e.body.value["message"] # ""}
\* The server answers only a request that was sent: a private operation of an
\* unauthenticated client is given one answer, which it never asks for.
PostEnvs == IF is_auth THEN Envs ELSE {CHOOSE e \in Envs : TRUE}

NoArgs == [symbol |-> "", params |-> EmptyDict, order |-> EmptyDict, orders |-> <<>>,
           order_id |-> 0, order_ids |-> <<>>, nonce |-> ""]

(***************************************************************************)
(* The client, used by one caller                                          *)
(***************************************************************************)
Init ==
    /\ constructed = "none"
    /\ options = EmptyDict
    /\ is_auth = FALSE
    /\ secret_key = NoneKey
    /\ url = <<>>
    /\ session = 0
    /\ sessions = <<>>
    /\ opsDone = 0
    /\ lastOp = "none"
    /\ lastArgs = NoArgs
    /\ lastCalls = <<>>
    /\ lastResponses = <<>>
    /\ lastClassified = NotClassified
    /\ lastOutcome = Returned
    /\ usedSessions = {}
    /\ transportCalls = 0
    /\ pc = <<>>
    /\ observedUnset = <<>>
    /\ createdBy = <<>>
    /\ localSession = <<>>
    /\ callsLeft = <<>>

Construct ==
    /\ constructed = "none"
    /\ \E o \in OptionChoices :
        LET c == ClientInit(o) IN
        /\ constructed' = IF c.exc.kind = "none" THEN "ok" ELSE c.exc.kind
        /\ options' = c.options
        /\ is_auth' = c.is_auth
        /\ secret_key' = c.secret_key
        /\ url' = c.url
    /\ lastOp' = "__init__"
    /\ UNCHANGED <<session, sessions, opsDone, lastArgs, lastCalls,
                   lastResponses, lastClassified, lastOutcome, usedSessions,
                   transportCalls, concVars>>

CanCall == constructed = "ok" /\ opsDone < MaxOps

\* The client after an endpoint operation with result r.
Finish(op, args, r) ==
    /\ session' = r.session
    /\ sessions' = r.sessions
    /\ opsDone' = opsDone + 1
    /\ lastOp' = op
    /\ lastArgs' = args
    /\ lastCalls' = r.calls
    /\ lastResponses' = r.responses
    /\ lastClassified' = r.classified
    /\ lastOutcome' = r.outcome
    /\ usedSessions' = usedSessions \cup {r.calls[i].session : i \in DOMAIN r.calls}
    /\ transportCalls' = transportCalls + Len(r.calls)
    /\ UNCHANGED <<constructed, options, is_auth, secret_key, url, concVars>>

req_ticker ==
    /\ CanCall
    /\ \E symbol \in Symbols, env \in Envs :
        Finish("req_ticker", [NoArgs EXCEPT !.symbol = symbol],
               MakeGetRequest(EndpointPath("req_ticker", symbol), NoQuery, env))

req_orderbook ==
    /\ CanCall
    /\ \E symbol \in Symbols, params \in QueryChoices, env \in Envs :
        Finish("req_orderbook", [NoArgs EXCEPT !.symbol = symbol, !.params = params],
               MakeGetRequest(EndpointPath("req_orderbook", symbol), params, env))

req_new_order ==
    /\ CanCall
    /\ \E order \in OrderChoices, n \in NonceInts, env \in PostEnvs :
        LET payload == ToDict(order) IN
        Finish("req_new_order", [NoArgs EXCEPT !.order = order, !.nonce = Str(n)],
               IF payload.exc.kind # "none" THEN RaisedEarly(payload.exc)
               ELSE MakePostRequest(EndpointPath("req_new_order", ""), payload.value,
                                    Str(n), env))

req_new_orders ==
    /\ CanCall
    /\ \E orders \in OrderListChoices, n \in NonceInts, env \in PostEnvs :
        Finish("req_new_orders", [NoArgs EXCEPT !.orders = orders, !.nonce = Str(n)],
               MakePostRequest(EndpointPath("req_new_orders", ""), [orders |-> orders],
                               Str(n), env))

req_cancel_order ==
    /\ CanCall
    /\ \E order_id \in OrderIds, n \in NonceInts, env \in PostEnvs :
        Finish("req_cancel_order", [NoArgs EXCEPT !.order_id = order_id, !.nonce = Str(n)],
               MakePostRequest(EndpointPath("req_cancel_order", ""), [id |-> order_id],
                               Str(n), env))

req_cancel_orders ==
    /\ CanCall
    /\ \E order_ids \in OrderIdListChoices, n \in NonceInts, env \in PostEnvs :
        Finish("req_cancel_orders",
               [NoArgs EXCEPT !.order_ids = order_ids, !.nonce = Str(n)],
               MakePostRequest(EndpointPath("req_cancel_orders", ""),
                               [orders |-> order_ids], Str(n), env))

req_active_orders ==
    /\ CanCall
    /\ \E n \in NonceInts, env \in PostEnvs :
        Finish("req_active_orders", [NoArgs EXCEPT !.nonce = Str(n)],
               MakePostRequest(EndpointPath("req_active_orders", ""), EmptyDict,
                               Str(n), env))

req_order_status ==
    /\ CanCall
    /\ \E order_id \in OrderIds, n \in NonceInts, env \in PostEnvs :
        Finish("req_order_status", [NoArgs EXCEPT !.order_id = order_id, !.nonce = Str(n)],
               MakePostRequest(EndpointPath("req_order_status", ""), [id |-> order_id],
                               Str(n), env))

Next ==
    \/ Construct
    \/ req_ticker
    \/ req_orderbook
    \/ req_new_order
    \/ req_new_orders
    \/ req_cancel_order
    \/ req_cancel_orders
    \/ req_active_orders
    \/ req_order_status

Spec == Init /\ [][Next]_vars

(***************************************************************************)
(* The client, shared by concurrent callers of req_ticker.  A caller runs  *)
(* lines 115-116, 152-156 and 183-192 one attribute access at a time; the  *)
(* interpreter may switch callers between any two of them.                 *)
(***************************************************************************)
Callers == {1, 2}

ConcOptionChoices ==
    {EmptyDict, [verify |-> FALSE],
     [auth |-> [key |-> "k1", secret |-> "s1"], key |-> "k2", secret |-> "s2"]}

\* A store that looks at self._session again and keeps a session already there.
StoreNewSessionOnce(sess, store) ==
    IF sess # 0 THEN [session |-> sess, sessions |-> store, created |-> 0]
    ELSE [session |-> Len(store) + 1,
          sessions |-> Append(store, [verify |-> TRUE, headers |-> EmptyDict]),
          created |-> Len(store) + 1]

\* line 184: self._session = requests.Session(), whatever self._session holds now
StoreNewSession(sess, store) ==
    [session |-> Len(store) + 1,
     sessions |-> Append(store, [verify |-> TRUE, headers |-> EmptyDict]),
     created |-> Len(store) + 1]

InitConc ==
    /\ \E o \in ConcOptionChoices :
        LET c == ClientInit(o) IN
        /\ constructed = "ok"
        /\ options = c.options
        /\ is_auth = c.is_auth
        /\ secret_key = c.secret_key
        /\ url = c.url
    /\ session = 0
    /\ sessions = <<>>
    /\ opsDone = 0
    /\ lastOp = "__init__"
    /\ lastArgs = NoArgs
    /\ lastCalls = <<>>
    /\ lastResponses = <<>>
    /\ lastClassified = NotClassified
    /\ lastOutcome = Returned
    /\ usedSessions = {}
    /\ transportCalls = 0
    /\ pc = [t \in Callers |-> "idle"]
    /\ observedUnset = [t \in Callers |-> FALSE]
    /\ createdBy = [t \in Callers |-> 0]
    /\ localSession = [t \in Callers |-> 0]
    /\ callsLeft = [t \in Callers |-> MaxCallsPerCaller]

clientVars == <<constructed, options, is_auth, secret_key, url>>
lastVars == <<opsDone, lastOp, lastArgs, lastCalls, lastResponses, lastClassified,
              lastOutcome, usedSessions, transportCalls>>

\* req_ticker is entered
CallTicker(t) ==
    /\ pc[t] = "idle"
    /\ callsLeft[t] > 0
    /\ callsLeft' = [callsLeft EXCEPT ![t] = @ - 1]
    /\ pc' = [pc EXCEPT ![t] = "check"]
    /\ observedUnset' = [observedUnset EXCEPT ![t] = FALSE]
    /\ createdBy' = [createdBy EXCEPT ![t] = 0]
    /\ localSession' = [localSession EXCEPT ![t] = 0]
    /\ UNCHANGED <<clientVars, lastVars, session, sessions>>

\* line 183: if not self._session
CheckSession(t) ==
    /\ pc[t] = "check"
    /\ observedUnset' = [observedUnset EXCEPT ![t] = (session = 0)]
    /\ pc' = [pc EXCEPT ![t] = IF session = 0 THEN "create" ELSE "return"]
    /\ UNCHANGED <<clientVars, lastVars, session, sessions, createdBy, localSession,
                   callsLeft>>

\* line 184
CreateSession(t) ==
    /\ pc[t] = "create"
    /\ LET r == StoreNewSession(session, sessions) IN
        /\ session' = r.session
        /\ sessions' = r.sessions
        /\ createdBy' = [createdBy EXCEPT ![t] = r.created]
    /\ pc' = [pc EXCEPT ![t] = "verify"]
    /\ UNCHANGED <<clientVars, lastVars, observedUnset, localSession, callsLeft>>

\* line 185: self._session.verify = ..., on the session stored now
SetVerify(t) ==
    /\ pc[t] = "verify"
    /\ sessions' = [sessions EXCEPT ![session].verify = options["verify"]]
    /\ pc' = [pc EXCEPT ![t] = IF is_auth THEN "headers" ELSE "return"]
    /\ UNCHANGED <<clientVars, lastVars, session, observedUnset, createdBy,
                   localSession, callsLeft>>

\* lines 187-190: self._session.headers.update(...), on the session stored now
SetHeaders(t) ==
    /\ pc[t] = "headers"
    /\ sessions' = [sessions EXCEPT ![session].headers =
                       ("X-BFX-APIKEY" :> KeyProperty.value) @@ @]
    /\ pc' = [pc EXCEPT ![t] = "return"]
    /\ UNCHANGED <<clientVars, lastVars, session, observedUnset, createdBy,
                   localSession, callsLeft>>

\* lines 192 and 152: session = the self._session stored now
ReturnSession(t) ==
    /\ pc[t] = "return"
    /\ localSession' = [localSession EXCEPT ![t] = session]
    /\ pc' = [pc EXCEPT ![t] = "send"]
    /\ UNCHANGED <<clientVars, lastVars, session, sessions, observedUnset, createdBy,
                   callsLeft>>

\* lines 153-156: the request, through the caller's session, and its classification
SendTicker(t) ==
    /\ pc[t] = "send"
    /\ \E symbol \in Symbols, env \in Envs :
        LET req == SessionRequest("GET", localSession[t], sessions,
                                  url \o EndpointPath("req_ticker", symbol),
                                  NoQuery, EmptyDict)
            response == Respond(req, env)
            err == HandleResponseErrors(response)
            j == ResponseJson(response)
        IN  /\ lastOp' = "req_ticker"
            /\ lastArgs' = [NoArgs EXCEPT !.symbol = symbol]
            /\ lastCalls' = <<req>>
            /\ lastResponses' = <<response>>
            /\ lastClassified' = err
            /\ lastOutcome' = IF err.kind # "none" THEN err
                              ELSE IF j.exc.kind # "none" THEN j.exc
                              ELSE Returned
    /\ opsDone' = opsDone + 1
    /\ usedSessions' = usedSessions \cup {localSession[t]}
    /\ transportCalls' = transportCalls + 1
    /\ pc' = [pc EXCEPT ![t] = "idle"]
    /\ UNCHANGED <<clientVars, session, sessions, observedUnset, createdBy,
                   localSession, callsLeft>>

NextConc ==
    \E t \in Callers :
        \/ CallTicker(t)
        \/ CheckSession(t)
        \/ CreateSession(t)
        \/ SetVerify(t)
        \/ SetHeaders(t)
        \/ ReturnSession(t)
        \/ SendTicker(t)

SpecConc == InitConc /\ [][NextConc]_vars

(***************************************************************************)
(* The claims                                                              *)
(***************************************************************************)
PrivateOps == {"req_new_order", "req_new_orders", "req_cancel_order",
               "req_cancel_orders", "req_active_orders", "req_order_status"}
EndpointOps == PrivateOps \cup {"req_ticker", "req_orderbook"}

\* C1: every private operation called on a client whose is_auth is false
\* fails with NotConfigured("auth"), issues no transport call and creates no
\* session.
C1_PrivateUnauthNotConfigured ==
    [][(opsDone' = opsDone + 1 /\ lastOp' \in PrivateOps /\ ~is_auth)
        => /\ lastOutcome'.kind = "NotConfigured"
           /\ lastOutcome' = NotConfiguredExc("auth")
           /\ lastCalls' = <<>>
           /\ transportCalls' = transportCalls
           /\ session' = session
           /\ sessions' = sessions]_vars

\* C2: a response is classified by its status alone: 200 raises nothing, 401
\* raises BadAuth, 429 RateLimitReached, any other status RequestError; the
\* error carries the path of the response's final URL and the status, and it
\* is what the operation raises.
C2_ClassifiedByStatus ==
    \A i \in DOMAIN lastResponses :
        LET r == lastResponses[i] IN
        /\ lastClassified.kind =
              (CASE r.status_code = 200 -> "none"
                 [] r.status_code = 401 -> "BadAuth"
                 [] r.status_code = 429 -> "RateLimitReached"
                 [] OTHER -> "RequestError")
        /\ r.status_code # 200 =>
              /\ lastClassified.path = UrlPath(r.url)
              /\ lastClassified.status = r.status_code
              /\ lastOutcome = lastClassified

\* C3: a 401 always constructs a BadAuth, whose message is the body's message
\* field when the body is JSON with a non-empty message, the placeholder when
\* the body is JSON without a (non-empty) message, and the placeholder followed
\* by the decode error's text when the body is not JSON.
C3_BadAuthMessage ==
    \A i \in DOMAIN lastResponses :
        LET r == lastResponses[i] IN
        r.status_code = 401 =>
            /\ lastClassified.kind = "BadAuth"
            /\ lastClassified.message =
                  (IF r.body.kind = "invalid"
                   THEN "<could not parse body>" \o "No JSON object could be decoded"
                   ELSE IF /\ r.body.kind = "object"
                           /\ "message" \in DOMAIN r.body.value
                           /\ r.body.value["message"] # ""
                   THEN r.body.value["message"]
                   ELSE "<could not parse body>")

\* C4: for every options map of the documented surface (auth absent, empty, or
\* with key and/or secret, empty or not), construction succeeds and is_auth is
\* true exactly when auth.key and auth.secret are both present and non-empty.
C4_IsAuthIffKeyAndSecret ==
    (constructed # "none" /\ DOMAIN options = DOMAIN DEFAULT_CONFIG)
        => /\ constructed = "ok"
           /\ is_auth = (/\ "key" \in DOMAIN options["auth"]
                         /\ "secret" \in DOMAIN options["auth"]
                         /\ options["auth"]["key"] # ""
                         /\ options["auth"]["secret"] # "")

\* C5: used by one caller, a client creates at most one session, every
\* transport call goes through it, and once created it stays self._session,
\* whatever the calls return or raise.
C5_SingleSession ==
    /\ Len(sessions) <= 1
    /\ Len(sessions) = 1 => session = 1
    /\ usedSessions \subseteq {s \in {session} : s # 0}
    /\ \A i \in DOMAIN lastCalls : lastCalls[i].session = session

\* a second transport call was issued, it ended in a typed error, and the one
\* session is still the client's
C5_Witness ==
    /\ transportCalls >= 2
    /\ Len(sessions) = 1
    /\ session = 1
    /\ lastCalls # <<>>
    /\ lastClassified.kind \in {"RequestError", "RateLimitReached", "BadAuth"}

CatalogMethod(op) == IF op \in {"req_ticker", "req_orderbook"} THEN "GET" ELSE "POST"
CatalogPath(op, symbol) ==
    CASE op = "req_ticker" -> <<"/v1/ticker/", symbol>>
      [] op = "req_orderbook" -> <<"/v1/book/", symbol>>
      [] op = "req_new_order" -> <<"/v1/order/new">>
      [] op = "req_new_orders" -> <<"/v1/order/new/multi">>
      [] op = "req_cancel_order" -> <<"/v1/order/cancel">>
      [] op = "req_cancel_orders" -> <<"/v1/order/cancel/multi">>
      [] op = "req_active_orders" -> <<"/v1/orders">>
      [] op = "req_order_status" -> <<"/v1/order/status">>
\* the payload a request's X-BFX-PAYLOAD header encodes
DecodedPayload(call) == call.headers["X-BFX-PAYLOAD"][2][2][2]

\* C6: an endpoint operation that reaches the transport issues exactly one
\* call, with the method and URL of the endpoint catalog (and, for the order
\* book, the caller's query parameters), and the request field of the signed
\* payload is that path.
C6_OneCallPerCatalog ==
    (lastOp \in EndpointOps /\ lastCalls # <<>>) =>
        /\ Len(lastCalls) = 1
        /\ lastCalls[1].method = CatalogMethod(lastOp)
        /\ lastCalls[1].url =
              <<options["protocol"], "://", options["host"]>>
                  \o CatalogPath(lastOp, lastArgs.symbol)
        /\ lastOp = "req_orderbook" => lastCalls[1].params = lastArgs.params
        /\ lastOp \in PrivateOps =>
              DecodedPayload(lastCalls[1])["request"] = CatalogPath(lastOp, "")

\* the batch cancel reached the transport and was answered 500
C6_Witness ==
    /\ lastOp = "req_cancel_orders"
    /\ Len(lastCalls) = 1
    /\ lastResponses[1].status_code = 500
    /\ lastOutcome.kind = "RequestError"

\* C7: a request carries X-BFX-APIKEY exactly when the client is
\* authenticated, with the configured key as its value; a POST carries the
\* two headers X-BFX-SIGNATURE and X-BFX-PAYLOAD besides, a GET neither; the
\* configured secret is no header's value.
C7_Headers ==
    \A i \in DOMAIN lastCalls :
        LET h == lastCalls[i].headers IN
        /\ ("X-BFX-APIKEY" \in DOMAIN h) <=> is_auth
        /\ ("X-BFX-APIKEY" \in DOMAIN h /\ "key" \in DOMAIN options["auth"])
              => h["X-BFX-APIKEY"] = options["auth"]["key"]
        /\ lastCalls[i].method = "POST"
              => DOMAIN h = {"X-BFX-APIKEY", "X-BFX-SIGNATURE", "X-BFX-PAYLOAD"}
        /\ lastCalls[i].method = "GET"
              => DOMAIN h \subseteq {"X-BFX-APIKEY"}
        /\ ("X-BFX-APIKEY" \in DOMAIN h /\ "secret" \in DOMAIN options["auth"]
                /\ options["auth"]["secret"] # "")
              => h["X-BFX-APIKEY"] # options["auth"]["secret"]
        /\ "X-BFX-SIGNATURE" \in DOMAIN h => h["X-BFX-SIGNATURE"][1] = "hmac-sha384-hex"

\* C8: every transport call is made with the timeout of the client's
\* configuration.
C8_TimeoutApplied ==
    \A i \in DOMAIN lastCalls : lastCalls[i].timeout = options["timeout"]

NamedKeys == {"symbol", "amount", "price", "exchange", "side", "type"}

\* C9: to_dict() of an Order returns the six named keys with the named values
\* (exchange = "bitfinex") and every extra field with its value, the named
\* field winning a collision.
C9_ToDictMergesExtras ==
    lastOp = "req_new_order" =>
        LET o == lastArgs.order
            d == ToDict(o)
        IN  /\ d.exc.kind = "none"
            /\ DOMAIN d.value = NamedKeys \cup DOMAIN o.additional_params
            /\ d.value["symbol"] = o.symbol /\ d.value["amount"] = o.amount
            /\ d.value["price"] = o.price /\ d.value["exchange"] = "bitfinex"
            /\ d.value["side"] = o.side /\ d.value["type"] = o.type
            /\ \A k \in DOMAIN o.additional_params \ NamedKeys :
                   d.value[k] = o.additional_params[k]

\* C10: with concurrent callers the check-then-set of _get_session is no
\* one-time initialization: every caller that saw self._session unset goes on
\* to create and store a session of its own, whatever another caller stored
\* in between, so two callers can each create one.
C10_LazySessionRace ==
    \A t \in Callers :
        (observedUnset[t] /\ pc[t] \notin {"check", "create"}) =>
            /\ createdBy[t] # 0
            /\ \A u \in Callers \ {t} : createdBy[u] # createdBy[t]
            /\ Len(sessions) >= Cardinality({u \in Callers :
                                  observedUnset[u] /\ pc[u] \notin {"check", "create"}})

\* both callers saw the session unset, two sessions exist, and the callers'
\* requests went through different sessions
C10_Witness ==
    /\ \A t \in Callers : observedUnset[t] /\ pc[t] = "idle" /\ callsLeft[t] < MaxCallsPerCaller
    /\ Len(sessions) = 2
    /\ localSession[1] # localSession[2]
    /\ usedSessions = {1, 2}

====
